---- MODULE Spec2Model ----
(***************************************************************************)
(* Slice selection and layer cache of the parallax voxel renderer.         *)
(*                                                                         *)
(* Part 1 models the camera-independent slicing of lib/slice-selection.ts  *)
(* (getSliceSizeForAbsoluteZ, getSliceContainingZ, generateSlicesForRange, *)
(* selectSlices).  Part 2 models the canvas ParallaxRenderer of            *)
(* lib/renderer.ts (layer map, dirty/visible flags, refresh baseline and   *)
(* session statistics).  The DOM ParallaxRenderer of the same file keeps   *)
(* the same fields and methods and, in addition, layerElements with the    *)
(* z-index of each layer's canvas element; that map is modelled too.       *)
(* The request/provide selection of slice-selection.ts (getValidSizes,     *)
(* getSliceAtDepth) is modelled beside Part 1.                             *)
(*                                                                         *)
(* Specifications.  Spec, SpecVisibility, SpecStaleness and SpecReselect   *)
(* follow one renderer through calls of its methods, for different call    *)
(* alphabets and lengths.  SpecSlices and SpecProvide apply the slicing    *)
(* functions to inputs drawn in Init.  SpecTiling runs the two loops of    *)
(* the slicer one iteration at a time.                                     *)
(*                                                                         *)
(* Numbers.  World depths that reach the slicer may be fractional (the     *)
(* camera moves in steps such as 0.5), so a z-coordinate is carried as an  *)
(* integer count of 1/ZS world units.  Slice depths and sizes are whole    *)
(* world units, as in the source.  A depth multiplier is a rational        *)
(* <<num, den>> (2 is <<2, 1>>, 1.5 is <<3, 2>>, 1.2 is <<6, 5>>).         *)
(* Wall-clock statistics (renderTime, fps, frameTime, timestamp and the    *)
(* floating averageCacheEfficiency) are left out: no operation reads them. *)
(* The 2d context of a layer canvas is taken to be available, as the       *)
(* constructor requires of the main canvas.                                *)
(***************************************************************************)
EXTENDS Integers, Sequences, FiniteSets, TLC

\* ---------------------------------------------------------------- bounds
\* Sub-units per world unit carried by fractional z-coordinates.
ZS == 4
\* Calls made on one renderer in a behaviour.
MaxSteps == 3
\* Calls made on one renderer in a behaviour of the visibility scenario.
MaxVisibilitySteps == 4
\* Calls made on one renderer in a behaviour of the staleness scenario.
MaxStalenessSteps == 5
\* Calls made on one renderer in a behaviour of the reselection scenario.
MaxReselectSteps == 6
\* Largest camera z move offered to setCamera, in 1/ZS units.
MaxMove == 3
\* Largest whole camera z of the slicing inputs.
MaxCam == 8
\* Largest camera move, in world units, between the two slicing calls.
MaxShift == 2
\* Largest |z| given to getSliceContainingZ alone, in world units.
MaxProbe == 70
\* Largest |z|, in world units, at which a slice is asked for.
MaxDepth == 220
\* Largest |z|, in world units, at which the long windows ask for a slice.
MaxLongDepth == 10008
\* largest N of the calls selectSlices(0, 1, N) made for every N from 2
MaxCountWindow == 260

\* ------------------------------------------------------------ arithmetic
Abs(n) == IF n < 0 THEN -n ELSE n

Max(a, b) == IF a >= b THEN a ELSE b

\* Math.floor of the value zq / ZS
Floor(zq) == zq \div ZS

\* Math.round(n / d) for d > 0: the nearest integer, halves toward +infinity
Round(n, d) == (2 * n + d) \div (2 * d)

\* JavaScript's a % b for b > 0: the remainder takes the sign of the dividend
\* (-6 % 4 is -2, -4 % 2 is -0, and -0 === 0)
JsRem(a, b) == IF a >= 0 THEN a % b ELSE -((-a) % b)

MulNum(m) == m[1]

MulDen(m) == m[2]

\* ------------------------------------------- Part 1: slice-selection.ts
MIN_SIZE == 1

MAX_SIZE == 64

DEFAULT_DEPTH_MULTIPLIER == <<2, 1>>

\* Exact naturals beyond the machine range (powers of a multiplier such as 6/5
\* outgrow it): little-endian limbs in base Limb, no leading zero limb.
Limb == 10000

RECURSIVE BigOf(_)
BigOf(n) == IF n = 0 THEN <<>> ELSE <<n % Limb>> \o BigOf(n \div Limb)

\* x * c + carry, for a small c >= 1
RECURSIVE BigTimes(_, _, _)
BigTimes(x, c, carry) ==
  IF x = <<>> THEN BigOf(carry)
  ELSE <<(Head(x) * c + carry) % Limb>> \o BigTimes(Tail(x), c, (Head(x) * c + carry) \div Limb)

RECURSIVE BigLeq(_, _)
BigLeq(x, y) ==
  IF Len(x) # Len(y) THEN Len(x) < Len(y)
  ELSE IF x = <<>> THEN TRUE
  ELSE IF x[Len(x)] # y[Len(y)] THEN x[Len(x)] < y[Len(y)]
  ELSE BigLeq(SubSeq(x, 1, Len(x) - 1), SubSeq(y, 1, Len(y) - 1))

\* Math.floor(Math.log(absZ) / Math.log(m)) for absZ >= 1 and m > 1: the largest
\* k with m^k <= absZ.  Carries p = num^k and q = den^k.
RECURSIVE FloorLog(_, _, _, _, _)
FloorLog(absZ, m, k, p, q) ==
  IF BigLeq(BigTimes(p, MulNum(m), 0), BigTimes(BigTimes(q, MulDen(m), 0), absZ, 0))
  THEN FloorLog(absZ, m, k + 1, BigTimes(p, MulNum(m), 0), BigTimes(q, MulDen(m), 0))
  ELSE [k |-> k, p |-> p, q |-> q]

\* Math.round(p / q) for 1 <= p / q <= MAX_SIZE: the largest r with r - 1/2 <= p / q
BigRound(p, q) ==
  CHOOSE r \in 1..MAX_SIZE :
    /\ BigLeq(BigTimes(q, 2 * r - 1, 0), BigTimes(p, 2, 0))
    /\ r < MAX_SIZE => ~BigLeq(BigTimes(q, 2 * r + 1, 0), BigTimes(p, 2, 0))

\* Variant of getSliceSizeForAbsoluteZ that caps the size at half of MAX_SIZE.
getSliceSizeForAbsoluteZHalfCap(absoluteZ, depthMultiplier) ==
  LET absZ == Abs(absoluteZ)
      logZ == FloorLog(absZ, depthMultiplier, 0, BigOf(1), BigOf(1))
      capped == ~BigLeq(BigTimes(logZ.p, 2, 0), BigTimes(logZ.q, MAX_SIZE, 0))
      rawRounded == IF capped THEN MAX_SIZE \div 2 ELSE BigRound(logZ.p, logZ.q)
  IN IF absZ < 1 THEN MIN_SIZE ELSE Max(MIN_SIZE, rawRounded)

\* The candidate (maximum) size at an integer z: the largest power of the
\* multiplier <= |z|, the exponent capped at log_m(MAX_SIZE), rounded.
getSliceSizeForAbsoluteZ(absoluteZ, depthMultiplier) ==
  LET absZ == Abs(absoluteZ)
      logZ == FloorLog(absZ, depthMultiplier, 0, BigOf(1), BigOf(1))
      \* floor(logZ) > log_m(MAX_SIZE)  iff  m^k > MAX_SIZE
      capped == ~BigLeq(logZ.p, BigTimes(logZ.q, MAX_SIZE, 0))
      rawRounded == IF capped THEN MAX_SIZE ELSE BigRound(logZ.p, logZ.q)
  IN IF absZ < 1 THEN MIN_SIZE ELSE Max(MIN_SIZE, rawRounded)

\* multipliers the slicer is called with (each > 1)
SlicerMultipliers == {<<6, 5>>, <<3, 2>>, <<2, 1>>, <<4, 1>>}

\* getSliceSizeForAbsoluteZ is a pure function of (|z|, multiplier); its values
\* over the depths the model reaches are computed once, in Init, and looked up
\* afterwards.
VARIABLE sliceSizes

\* the depths beyond MaxDepth at which a size is asked for: the long windows
\* of the slice count use the default multiplier and, past MaxDepth, start
\* their slices at multiples of MAX_SIZE / 2
LongDepths == {a \in (MaxDepth + 1)..MaxLongDepth : a % (MAX_SIZE \div 2) = 0}

SizedDepths(m) ==
  (0..MaxDepth) \cup (IF m = DEFAULT_DEPTH_MULTIPLIER THEN LongDepths ELSE {})

InitSliceSizes ==
  sliceSizes = [m \in SlicerMultipliers |->
                  [a \in SizedDepths(m) |-> getSliceSizeForAbsoluteZ(a, m)]]

SliceSizeAt(absoluteZ, depthMultiplier) == sliceSizes[depthMultiplier][Abs(absoluteZ)]

\* Variant of SizeSearch that steps to round(testSize * m) + 1.
RECURSIVE SizeSearchSkewed(_, _, _, _, _)
SizeSearchSkewed(intZ, candidateSize, depthMultiplier, testSize, size) ==
  IF testSize <= candidateSize /\ testSize <= MAX_SIZE
  THEN LET kept == IF JsRem(intZ, testSize) = 0 THEN testSize ELSE size
           nextSize == Round(testSize * MulNum(depthMultiplier), MulDen(depthMultiplier)) + 1
       IN SizeSearchSkewed(intZ, candidateSize, depthMultiplier, nextSize, kept)
  ELSE size

\* Variant of SizeSearch whose loop stops before testSize reaches MAX_SIZE.
RECURSIVE SizeSearchBelowMax(_, _, _, _, _)
SizeSearchBelowMax(intZ, candidateSize, depthMultiplier, testSize, size) ==
  IF testSize <= candidateSize /\ testSize < MAX_SIZE
  THEN LET kept == IF JsRem(intZ, testSize) = 0 THEN testSize ELSE size
           nextSize == Round(testSize * MulNum(depthMultiplier), MulDen(depthMultiplier))
       IN IF nextSize <= testSize THEN kept
          ELSE SizeSearchBelowMax(intZ, candidateSize, depthMultiplier, nextSize, kept)
  ELSE size

\* The while loop of getSliceContainingZ: walks testSize over 1, round(m),
\* round(round(m) * m), ... and keeps the last one that divides intZ.
RECURSIVE SizeSearch(_, _, _, _, _)
SizeSearch(intZ, candidateSize, depthMultiplier, testSize, size) ==
  IF testSize <= candidateSize /\ testSize <= MAX_SIZE
  THEN LET kept == IF JsRem(intZ, testSize) = 0 THEN testSize ELSE size
           nextSize == Round(testSize * MulNum(depthMultiplier), MulDen(depthMultiplier))
       IN IF nextSize <= testSize THEN kept
          ELSE SizeSearch(intZ, candidateSize, depthMultiplier, nextSize, kept)
  ELSE size

\* Variant of SearchIteration without the break on a testSize that stops
\* growing.
SearchIterationNoBreak(intZ, candidateSize, depthMultiplier, testSize, size) ==
  IF testSize <= candidateSize /\ testSize <= MAX_SIZE
  THEN LET kept == IF JsRem(intZ, testSize) = 0 THEN testSize ELSE size
           nextSize == Round(testSize * MulNum(depthMultiplier), MulDen(depthMultiplier))
       IN [done |-> FALSE, testSize |-> nextSize, size |-> kept]
  ELSE [done |-> TRUE, testSize |-> testSize, size |-> size]

\* One evaluation of the while condition of getSliceContainingZ and, if it
\* holds, one run of the body: the locals afterwards, and whether the loop
\* was left.
SearchIteration(intZ, candidateSize, depthMultiplier, testSize, size) ==
  IF testSize <= candidateSize /\ testSize <= MAX_SIZE
  THEN LET kept == IF JsRem(intZ, testSize) = 0 THEN testSize ELSE size
           nextSize == Round(testSize * MulNum(depthMultiplier), MulDen(depthMultiplier))
       IN IF nextSize <= testSize
          THEN [done |-> TRUE, testSize |-> testSize, size |-> kept]
          ELSE [done |-> FALSE, testSize |-> nextSize, size |-> kept]
  ELSE [done |-> TRUE, testSize |-> testSize, size |-> size]

\* Variant of getSliceContainingZ that returns the candidate size at floor(z)
\* without the divisibility search.
getSliceContainingZUnaligned(z, depthMultiplier) ==
  [depth |-> Floor(z), size |-> SliceSizeAt(Floor(z), depthMultiplier)]

\* z is in 1/ZS units; the slice is in whole world units.
getSliceContainingZ(z, depthMultiplier) ==
  LET intZ == Floor(z)
      candidateSize == SliceSizeAt(intZ, depthMultiplier)
      size == SizeSearch(intZ, candidateSize, depthMultiplier, MIN_SIZE, MIN_SIZE)
  IN IF Abs(intZ) < 1
     THEN [depth |-> intZ, size |-> MIN_SIZE]
     ELSE [depth |-> (intZ \div size) * size, size |-> size]

\* Array.prototype.sort((a, b) => a.depth - b.depth): a stable insertion sort
RECURSIVE InsertByDepth(_, _)
InsertByDepth(sorted, s) ==
  IF sorted = <<>> THEN <<s>>
  ELSE IF sorted[Len(sorted)].depth <= s.depth THEN Append(sorted, s)
  ELSE Append(InsertByDepth(SubSeq(sorted, 1, Len(sorted) - 1), s), sorted[Len(sorted)])

RECURSIVE InsertionSort(_)
InsertionSort(seq) ==
  IF seq = <<>> THEN <<>>
  ELSE InsertByDepth(InsertionSort(SubSeq(seq, 1, Len(seq) - 1)), seq[Len(seq)])

\* a stable sort leaves a sequence that is already in order as it is
SortByDepth(seq) ==
  IF \A i \in 1..(Len(seq) - 1) : seq[i].depth <= seq[i + 1].depth
  THEN seq
  ELSE InsertionSort(seq)

\* Variant of LoopIteration that ends the loop one unit before maxZ.
LoopIterationEndsEarly(pending, maxZ, depthMultiplier) ==
  IF pending = <<>> THEN [slices |-> <<>>, pending |-> <<>>]
  ELSE LET currentSlice == pending[1]
           nextZ == currentSlice.depth + currentSlice.size
       IN IF currentSlice.depth * ZS < maxZ
          THEN [slices |-> <<currentSlice>>,
                pending |-> IF (nextZ + 1) * ZS >= maxZ THEN <<>>
                            ELSE <<getSliceContainingZ(nextZ * ZS, depthMultiplier)>>]
          ELSE [slices |-> <<>>, pending |-> <<>>]

\* One iteration of the while loop of generateSlicesForRange.  pending is
\* <<currentSlice>>, or <<>> once the loop has ended; the result is the slice
\* pushed (if any) and the pending of the next iteration.
LoopIteration(pending, maxZ, depthMultiplier) ==
  IF pending = <<>> THEN [slices |-> <<>>, pending |-> <<>>]
  ELSE LET currentSlice == pending[1]
           nextZ == currentSlice.depth + currentSlice.size
           found == getSliceContainingZ(nextZ * ZS, depthMultiplier)
           forced == IF found.depth < nextZ
                     THEN [depth |-> nextZ, size |-> MIN_SIZE]
                     ELSE found
       IN IF currentSlice.depth * ZS < maxZ
          THEN [slices |-> <<currentSlice>>,
                pending |-> IF nextZ * ZS >= maxZ THEN <<>> ELSE <<forced>>]
          ELSE [slices |-> <<>>, pending |-> <<>>]

\* The while loop of generateSlicesForRange, from its first currentSlice: the
\* slices pushed, in order.  maxZ is in 1/ZS units.  Every iteration moves
\* currentSlice.depth up by at least MIN_SIZE, which bounds their number; the
\* iterations are run as two halves, one after the other.
GenerateLoop(firstSlice, maxZ, depthMultiplier) ==
  LET Iterations[pending \in Seq([depth : Int, size : 1..MAX_SIZE]), n \in Nat] ==
        IF n = 0 \/ pending = <<>> THEN [slices |-> <<>>, pending |-> pending]
        ELSE IF n = 1 THEN LoopIteration(pending, maxZ, depthMultiplier)
        ELSE LET first == Iterations[pending, n \div 2]
                 second == Iterations[first.pending, n - n \div 2]
             IN [slices |-> first.slices \o second.slices, pending |-> second.pending]
  IN Iterations[<<firstSlice>>, Max(0, maxZ \div ZS - firstSlice.depth) + 1].slices

\* Variant of generateSlicesForRange whose early return excludes minZ = maxZ.
generateSlicesForRangeStrict(minZ, maxZ, depthMultiplier) ==
  IF minZ > maxZ THEN <<>>
  ELSE SortByDepth(GenerateLoop(getSliceContainingZ(minZ, depthMultiplier),
                                maxZ, depthMultiplier))

\* minZ and maxZ are in 1/ZS units.
generateSlicesForRange(minZ, maxZ, depthMultiplier) ==
  IF minZ >= maxZ THEN <<>>
  ELSE SortByDepth(GenerateLoop(getSliceContainingZ(minZ, depthMultiplier),
                                maxZ, depthMultiplier))

\* cameraZ is in 1/ZS units; the relative depths are whole world units.
selectSlices(cameraZ, minRelativeDepth, maxRelativeDepth, depthMultiplier) ==
  LET visibleMinZ == cameraZ + minRelativeDepth * ZS
      visibleMaxZ == cameraZ + maxRelativeDepth * ZS
  IN generateSlicesForRange(visibleMinZ, visibleMaxZ, depthMultiplier)

\* ---------------------------------- the request/provide slice selection
\* The later selection of slice-selection.ts: the camera requests a minimum
\* size at a depth and the world provides the smallest valid slice there.

\* getValidSizes: 1, round(m), round(round(m) * m), ... up to MAX_SIZE
RECURSIVE ValidSizesFrom(_, _)
ValidSizesFrom(testSize, depthMultiplier) ==
  IF testSize <= MAX_SIZE
  THEN LET nextSize == Round(testSize * MulNum(depthMultiplier), MulDen(depthMultiplier))
       IN <<testSize>> \o (IF nextSize <= testSize THEN <<>>
                           ELSE ValidSizesFrom(nextSize, depthMultiplier))
  ELSE <<>>

getValidSizes(depthMultiplier) == ValidSizesFrom(MIN_SIZE, depthMultiplier)

\* Math.min(...sizes) and Math.max(...sizes) of a non-empty set
Smallest(sizes) == CHOOSE s \in sizes : \A t \in sizes : s <= t

Largest(sizes) == CHOOSE s \in sizes : \A t \in sizes : s >= t

\* Variant of getSliceAtDepth that provides the largest valid size at the depth
\* whatever was requested.
getSliceAtDepthLargest(depth, minSize, depthMultiplier) ==
  LET intDepth == Floor(depth)
      validSizes == getValidSizes(depthMultiplier)
      validAtDepth == {validSizes[i] : i \in {j \in DOMAIN validSizes :
                         intDepth = 0 \/ JsRem(intDepth, validSizes[j]) = 0}}
  IN IF validAtDepth = {} THEN [depth |-> intDepth, size |-> MIN_SIZE]
     ELSE [depth |-> intDepth, size |-> Largest(validAtDepth)]

\* getSliceAtDepth(depth, minSize, depthMultiplier); depth in 1/ZS units
getSliceAtDepth(depth, minSize, depthMultiplier) ==
  LET intDepth == Floor(depth)
      validSizes == getValidSizes(depthMultiplier)
      validAtDepth == {validSizes[i] : i \in {j \in DOMAIN validSizes :
                         intDepth = 0 \/ JsRem(intDepth, validSizes[j]) = 0}}
      satisfying == {size \in validAtDepth : size >= minSize}
  IN IF validAtDepth = {} THEN [depth |-> intDepth, size |-> MIN_SIZE]
     ELSE IF satisfying # {} THEN [depth |-> intDepth, size |-> Smallest(satisfying)]
     ELSE [depth |-> intDepth, size |-> Largest(validAtDepth)]

\* ------------------------------------------------ Part 2: renderer.ts
\* size of the generated terrain: voxels have integer z in [-size, size)
WorldSize == 40

\* World.generate(): the noise terrain is abstracted to a small voxel set that
\* depends on the seed: a column every 8th z, one or two voxels high.
generate(seed) ==
  {[z |-> z, y |-> y] : z \in {c \in -WorldSize..(WorldSize - 1) : (c + seed) % 8 = 0},
                        y \in 0..1} \ {[z |-> z, y |-> 1] : z \in {c \in -WorldSize..(WorldSize - 1) : (c \div 8 + seed) % 2 = 0}}

\* World.getVoxelsInAbsoluteZRange(minZ, maxZ), in whole world units
getVoxelsInAbsoluteZRange(seed, minZ, maxZ) ==
  {v \in generate(seed) : v.z >= minZ /\ v.z < maxZ}

VARIABLES
  camera,             \* {x, y, z}; z in 1/ZS units
  layers,             \* Map<number, Layer>: a function from depth to layer
  lastCachePosition,  \* the refresh baseline, a camera
  sessionStats,       \* the counters of SessionStats
  depthMultiplier,    \* <<num, den>>
  world,              \* the seed of the current World
  canvas,             \* the output canvas: [width, height]
  composited,         \* depths drawn to the output canvas by the last render, in order
  layerElements,      \* DOM renderer: Map<number, elements>, from depth to the
                      \* z-index of the layer's canvas element
  lastCall,           \* history: the most recent call, [op, param]
  lateralOnly,        \* history: render() has run, and every call since then was a
                      \* setCamera that left camera.z as it was
  steps,              \* history: calls made so far
  everHidden,         \* history: the depths of the layers a visibility call has
                      \* hidden so far
  invalidations,      \* history: calls of resize and regenerateWorld and accepted
                      \* calls of setDepthMultiplier made so far
  callLimit,          \* history: the number of calls a behaviour is followed for
  pc,                 \* slicing harness: "off", "input", "called", "recalled"
  fn,                 \* slicing harness: the function under call
  arg,                \* slicing harness: [z, minRel, maxRel, mult] of the first call
  ret,                \* slicing harness: slices returned by the first call
  arg2,               \* slicing harness: arguments of the second call
  ret2,               \* slicing harness: slices returned by the second call
  search              \* slicing harness: the locals testSize and size of the
                      \* size search under way, and its iterations so far

rendererVars == <<camera, layers, lastCachePosition, sessionStats, depthMultiplier,
                  world, canvas, composited, layerElements, lastCall, lateralOnly,
                  steps, invalidations, everHidden>>

harnessVars == <<pc, fn, arg, ret, arg2, ret2, search>>

\* steps and pc come first: every step changes one of them
vars == <<steps, pc, camera, layers, lastCachePosition, sessionStats, depthMultiplier,
          world, canvas, composited, layerElements, lastCall, lateralOnly, fn, arg,
          ret, arg2, ret2, search, sliceSizes, callLimit, invalidations,
          everHidden>>

EmptyLayers == [d \in {} |-> 0]

\* constructor(canvas, world)
InitRenderer ==
  /\ camera = [x |-> 0, y |-> 15, z |-> -30 * ZS]
  /\ lastCachePosition = [x |-> 0, y |-> 15, z |-> -30 * ZS]
  /\ layers = EmptyLayers
  /\ sessionStats = [totalUpdates |-> 0, totalLayersRegenerated |-> 0,
                     totalVoxelsRendered |-> 0, lastUpdate |-> <<>>,
                     layerCount |-> 0, voxelsRendered |-> 0,
                     cacheHits |-> 0, cacheMisses |-> 0]
  /\ depthMultiplier = DEFAULT_DEPTH_MULTIPLIER
  /\ world = 1
  /\ canvas = [width |-> 800, height |-> 600]
  /\ composited = <<>>
  /\ layerElements = EmptyLayers
  /\ lastCall = [op |-> "constructor", param |-> 0]
  /\ lateralOnly = FALSE
  /\ steps = 0
  /\ invalidations = 0
  /\ everHidden = {}

\* Variant of invalidateCache that also makes every layer visible.
invalidateCacheShowsAll(ls) ==
  [d \in DOMAIN ls |-> [ls[d] EXCEPT !.dirty = TRUE, !.visible = TRUE]]

\* Variant of invalidateCache that marks only the visible layers.
invalidateCacheVisibleOnly(ls) ==
  [d \in DOMAIN ls |-> [ls[d] EXCEPT !.dirty = @ \/ ls[d].visible]]

\* invalidateCache(): every layer dirty
invalidateCache(ls) == [d \in DOMAIN ls |-> [ls[d] EXCEPT !.dirty = TRUE]]

\* Variant of needsCacheRefresh with a threshold that is not strict.
needsCacheRefreshAtThreshold(cam, last) == 2 * Abs(cam.z - last.z) >= ZS

\* Variant of needsCacheRefresh with the threshold at 1.0.
needsCacheRefreshWide(cam, last) == Abs(cam.z - last.z) > ZS

\* needsCacheRefresh(): |camera.z - lastCachePosition.z| > 0.5
needsCacheRefresh(cam, last) == 2 * Abs(cam.z - last.z) > ZS

\* Variant of createLayer that gives every layer the size MIN_SIZE.
createLayerUnitSize(depth, size, cv) ==
  [depth |-> depth, size |-> MIN_SIZE, voxels |-> {},
   canvas |-> [width |-> cv.width, height |-> cv.height, viewingDistance |-> 0],
   dirty |-> TRUE, visible |-> TRUE]

\* createLayer(depth, size), followed by the caller's layer.dirty = true.  The
\* layer's canvas is blank; once drawn it keeps the viewing distance its
\* voxels were scaled by, in 1/(2 * ZS) units.
createLayer(depth, size, cv) ==
  [depth |-> depth, size |-> size, voxels |-> {},
   canvas |-> [width |-> cv.width, height |-> cv.height, viewingDistance |-> 0],
   dirty |-> TRUE, visible |-> TRUE]

\* layer.depth + layer.size / 2 - cam.z, in 1/(2 * ZS) units
ViewingDistance(layer, cam) == 2 * ZS * layer.depth + ZS * layer.size - 2 * cam.z

\* Variant of BehindCamera that also skips layers up to 2 units in front.
BehindCameraWithinTwo(layer, cam) ==
  2 * ZS * layer.depth + ZS * layer.size - 2 * cam.z <= 4 * ZS

\* viewingDistance <= 0.1 for the layer centre depth + size / 2
BehindCamera(layer, cam) ==
  10 * (2 * ZS * layer.depth + ZS * layer.size - 2 * cam.z) <= 2 * ZS

\* Variant of renderLayerToCanvas that leaves the layer dirty.
renderLayerToCanvasStaysDirty(layer, cameraForRendering, seed) ==
  [layer |-> [layer EXCEPT !.voxels = getVoxelsInAbsoluteZRange(seed, layer.depth,
                                                                layer.depth + layer.size),
                           !.canvas.viewingDistance =
                              IF BehindCamera(layer, cameraForRendering) THEN 0
                              ELSE ViewingDistance(layer, cameraForRendering)],
   count |-> IF BehindCamera(layer, cameraForRendering) THEN 0
             ELSE Cardinality(getVoxelsInAbsoluteZRange(seed, layer.depth,
                                                        layer.depth + layer.size))]

\* Variant of renderLayerToCanvas that samples the world at depths relative to
\* the camera.
renderLayerToCanvasRelative(layer, cameraForRendering, seed) ==
  LET found == getVoxelsInAbsoluteZRange(seed,
                 layer.depth + Floor(cameraForRendering.z),
                 layer.depth + layer.size + Floor(cameraForRendering.z))
      after == [layer EXCEPT !.voxels = found, !.dirty = FALSE,
                             !.canvas.viewingDistance = 0]
      drawn == [after EXCEPT !.canvas.viewingDistance =
                               ViewingDistance(layer, cameraForRendering)]
  IN IF BehindCamera(layer, cameraForRendering)
     THEN [layer |-> after, count |-> 0]
     ELSE [layer |-> drawn, count |-> Cardinality(found)]

\* renderLayerToCanvas(layer, cameraForRendering): the layer afterwards and the
\* number of voxels painted
renderLayerToCanvas(layer, cameraForRendering, seed) ==
  LET found == getVoxelsInAbsoluteZRange(seed, layer.depth, layer.depth + layer.size)
      after == [layer EXCEPT !.voxels = found, !.dirty = FALSE,
                             !.canvas.viewingDistance = 0]
      drawn == [after EXCEPT !.canvas.viewingDistance =
                               ViewingDistance(layer, cameraForRendering)]
  IN IF BehindCamera(layer, cameraForRendering)
     THEN [layer |-> after, count |-> 0]
     ELSE [layer |-> drawn, count |-> Cardinality(found)]

getLayerBoundaries(cam, mult) == selectSlices(cam.z, 1, 200, mult)

\* the size of the first boundary with this depth
BoundarySize(boundaries, depth) ==
  boundaries[CHOOSE i \in 1..Len(boundaries) :
               /\ boundaries[i].depth = depth
               /\ \A j \in 1..(i - 1) : boundaries[j].depth # depth].size

\* Variant of updateLayers that never evicts a layer.
updateLayersKeepsAll(cam, ls, last, stats, mult, cv) ==
  LET boundaries == getLayerBoundaries(cam, mult)
      requiredKeys == {boundaries[i].depth : i \in 1..Len(boundaries)}
      reconciled == [d \in DOMAIN ls \cup requiredKeys |->
                       IF d \in DOMAIN ls THEN ls[d]
                       ELSE createLayer(d, BoundarySize(boundaries, d), cv)]
  IN IF needsCacheRefresh(cam, last)
     THEN [layers |-> invalidateCache(reconciled),
           lastCachePosition |-> cam,
           sessionStats |-> [stats EXCEPT !.cacheMisses = @ + 1],
           cacheRefreshed |-> TRUE]
     ELSE [layers |-> reconciled,
           lastCachePosition |-> last,
           sessionStats |-> [stats EXCEPT !.cacheHits = @ + 1],
           cacheRefreshed |-> FALSE]

\* updateLayers(): evict, create, then refresh or count a hit
updateLayers(cam, ls, last, stats, mult, cv) ==
  LET boundaries == getLayerBoundaries(cam, mult)
      requiredKeys == {boundaries[i].depth : i \in 1..Len(boundaries)}
      keptKeys == DOMAIN ls \cap requiredKeys
      reconciled == [d \in requiredKeys |->
                       IF d \in keptKeys THEN ls[d]
                       ELSE createLayer(d, BoundarySize(boundaries, d), cv)]
  IN IF needsCacheRefresh(cam, last)
     THEN [layers |-> invalidateCache(reconciled),
           lastCachePosition |-> cam,
           sessionStats |-> [stats EXCEPT !.cacheMisses = @ + 1],
           cacheRefreshed |-> TRUE]
     ELSE [layers |-> reconciled,
           lastCachePosition |-> last,
           sessionStats |-> [stats EXCEPT !.cacheHits = @ + 1],
           cacheRefreshed |-> FALSE]

\* Array.from(layers.values()).sort((a, b) => b.depth - a.depth), as depths:
\* the keys are distinct integers, so the sorted order is the descending scan
\* of their range (taken as two halves)
RECURSIVE DescendingScan(_, _, _)
DescendingScan(keys, highest, lowest) ==
  IF highest < lowest THEN <<>>
  ELSE IF highest = lowest THEN (IF highest \in keys THEN <<highest>> ELSE <<>>)
  ELSE DescendingScan(keys, highest, (highest + lowest) \div 2 + 1)
         \o DescendingScan(keys, (highest + lowest) \div 2, lowest)

\* Variant of SortedDescending that sorts nearest first.
SortedDescendingReversed(keys) ==
  IF keys = {} THEN <<>>
  ELSE LET farthestFirst ==
             DescendingScan(keys, CHOOSE d \in keys : \A e \in keys : e <= d,
                                  CHOOSE d \in keys : \A e \in keys : d <= e)
       IN [i \in 1..Len(farthestFirst) |-> farthestFirst[Len(farthestFirst) + 1 - i]]

SortedDescending(keys) ==
  IF keys = {} THEN <<>>
  ELSE DescendingScan(keys, CHOOSE d \in keys : \A e \in keys : e <= d,
                            CHOOSE d \in keys : \A e \in keys : d <= e)

\* the sum of count[sortedLayers[i]] for i in from..to
RECURSIVE SumCounts(_, _, _, _)
SumCounts(sortedLayers, from, to, count) ==
  IF from > to THEN 0
  ELSE IF from = to THEN count[sortedLayers[from]]
  ELSE SumCounts(sortedLayers, from, (from + to) \div 2, count)
         + SumCounts(sortedLayers, (from + to) \div 2 + 1, to, count)

\* Variant of RenderLoop that regenerates a dirty layer only if it is visible.
RenderLoopSkipsHidden(sortedLayers, ls, cam, seed) ==
  LET shown == {d \in DOMAIN ls : ~BehindCamera(ls[d], cam)}
      regenerated == {d \in shown : ls[d].dirty /\ ls[d].visible}
      rendered == [d \in regenerated |-> renderLayerToCanvas(ls[d], cam, seed)]
      count == [d \in DOMAIN ls |-> IF d \in regenerated THEN rendered[d].count ELSE 0]
      index == [d \in DOMAIN ls |->
                  CHOOSE i \in 1..Len(sortedLayers) : sortedLayers[i] = d]
  IN [layers |-> [d \in DOMAIN ls |->
                    IF d \in regenerated THEN rendered[d].layer ELSE ls[d]],
      layersRegenerated |-> Cardinality(regenerated),
      layersReused |-> Cardinality(shown \ regenerated),
      totalVoxels |-> SumCounts(sortedLayers, 1, Len(sortedLayers), count),
      drawn |-> SelectSeq(sortedLayers, LAMBDA d : d \in shown /\ ls[d].visible),
      zIndex |-> [d \in shown |-> 2 * (index[d] - 1)]]

\* The sortedLayers.forEach of render().  An iteration reads and writes only
\* its own layer, so the loop is taken layer by layer: a layer behind the
\* camera is skipped; a dirty one is regenerated, a clean one reused; a
\* visible one is drawn to the output canvas, in the order of sortedLayers.
\* zIndex is the z-index the DOM renderer gives the layer's canvas element:
\* twice the layer's (zero-based) index in sortedLayers.
RenderLoop(sortedLayers, ls, cam, seed) ==
  LET shown == {d \in DOMAIN ls : ~BehindCamera(ls[d], cam)}
      regenerated == {d \in shown : ls[d].dirty}
      rendered == [d \in regenerated |-> renderLayerToCanvas(ls[d], cam, seed)]
      count == [d \in DOMAIN ls |-> IF d \in regenerated THEN rendered[d].count ELSE 0]
      index == [d \in DOMAIN ls |->
                  CHOOSE i \in 1..Len(sortedLayers) : sortedLayers[i] = d]
  IN [layers |-> [d \in DOMAIN ls |->
                    IF d \in regenerated THEN rendered[d].layer ELSE ls[d]],
      layersRegenerated |-> Cardinality(regenerated),
      layersReused |-> Cardinality(shown \ regenerated),
      totalVoxels |-> SumCounts(sortedLayers, 1, Len(sortedLayers), count),
      drawn |-> SelectSeq(sortedLayers, LAMBDA d : d \in shown /\ ls[d].visible),
      zIndex |-> [d \in shown |-> 2 * (index[d] - 1)]]

\* the part of render() after updateLayers()
RenderUpdated(updated, cam, seed) ==
  LET sortedLayers == SortedDescending(DOMAIN updated.layers)
      done == RenderLoop(sortedLayers, updated.layers, cam, seed)
      updateStats == [layerCount |-> Len(sortedLayers),
                      layersReused |-> done.layersReused,
                      layersRegenerated |-> done.layersRegenerated,
                      voxelsRendered |-> done.totalVoxels]
  IN [layers |-> done.layers,
      lastCachePosition |-> updated.lastCachePosition,
      composited |-> done.drawn,
      zIndex |-> done.zIndex,
      sessionStats |-> [updated.sessionStats EXCEPT
                          !.totalUpdates = @ + 1,
                          !.totalLayersRegenerated = @ + done.layersRegenerated,
                          !.totalVoxelsRendered = @ + done.totalVoxels,
                          !.lastUpdate = <<updateStats>>,
                          !.layerCount = Len(sortedLayers),
                          !.voxelsRendered = done.totalVoxels]]

\* render(): the renderer after one frame
RenderFrame(cam, ls, last, stats, mult, cv, seed) ==
  RenderUpdated(updateLayers(cam, ls, last, stats, mult, cv), cam, seed)

\* ------------------------------------------------------------- inputs
\* camera z offered to setCamera: around the constructor position in steps of
\* 1/ZS, and one far jump
ZInputs == {-30 * ZS + k : k \in -MaxMove..MaxMove} \cup {10 * ZS}

\* Partial<Camera>: a function on a subset of the axes
CameraPartials ==
  {[a \in {} |-> 0]} \cup {[x |-> 1], [y |-> 16]}
    \cup {[z |-> v] : v \in ZInputs} \cup {[x |-> 1, z |-> -30 * ZS + 1]}

MultiplierInputs == {<<1, 1>>, <<6, 5>>, <<3, 2>>, <<2, 1>>, <<4, 1>>, <<9, 2>>}

SeedInputs == {1, 2}

SizeInputs == {[width |-> 1024, height |-> 768]}

\* depths offered to the visibility calls: the nearest layer of the constructor
\* camera and a depth that is never a layer
DepthInputs == {-29, 7}

\* Variant of MultiplierAccepted with the upper end of the range at 5.
MultiplierAcceptedUpToFive(multiplier) ==
  /\ 5 * MulNum(multiplier) >= 6 * MulDen(multiplier)
  /\ MulNum(multiplier) <= 5 * MulDen(multiplier)

\* Variant of MultiplierAccepted that excludes the two ends of the range.
MultiplierAcceptedInside(multiplier) ==
  /\ 5 * MulNum(multiplier) > 6 * MulDen(multiplier)
  /\ MulNum(multiplier) < 4 * MulDen(multiplier)

\* multiplier >= 1.2 && multiplier <= 4
MultiplierAccepted(multiplier) ==
  /\ 5 * MulNum(multiplier) >= 6 * MulDen(multiplier)
  /\ MulNum(multiplier) <= 4 * MulDen(multiplier)

\* ------------------------------------------------------------ actions
\* bookkeeping of a call; camera' is set by the caller
Called(op, a) ==
  /\ steps < callLimit
  /\ steps' = steps + 1
  /\ lastCall' = [op |-> op, param |-> a]
  /\ lateralOnly' = IF op = "render" THEN TRUE
                    ELSE IF op = "setCamera" THEN lateralOnly /\ camera'.z = camera.z
                    ELSE FALSE
  /\ invalidations' = IF \/ op \in {"resize", "regenerateWorld"}
                          \/ (op = "setDepthMultiplier" /\ MultiplierAccepted(a))
                       THEN invalidations + 1 ELSE invalidations
  /\ everHidden' = IF op = "toggleLayerVisibility" /\ a \in DOMAIN layers
                    THEN (IF layers[a].visible THEN everHidden \cup {a} ELSE everHidden)
                    ELSE IF op = "setLayerVisibility" /\ a[1] \in DOMAIN layers /\ ~a[2]
                    THEN everHidden \cup {a[1]}
                    ELSE everHidden
  /\ UNCHANGED <<sliceSizes, callLimit>>

\* setCamera(partial): merges the given axes
setCamera(partial) ==
  /\ camera' = [a \in {"x", "y", "z"} |->
                  IF a \in DOMAIN partial THEN partial[a] ELSE camera[a]]
  /\ Called("setCamera", partial)
  /\ UNCHANGED <<layers, lastCachePosition, sessionStats, depthMultiplier, world,
                 canvas, composited, layerElements>>

\* DOM renderer: layerElements after a frame.  updateLayers removed the
\* elements of the layers it deleted; the loop gave every layer it did not
\* skip its elements and its z-index.
ElementsAfterRender(elements, frame) ==
  LET kept == DOMAIN elements \cap DOMAIN frame.layers
  IN [d \in kept \cup DOMAIN frame.zIndex |->
        IF d \in DOMAIN frame.zIndex THEN frame.zIndex[d] ELSE elements[d]]

render ==
  LET frame == RenderFrame(camera, layers, lastCachePosition, sessionStats,
                           depthMultiplier, canvas, world)
  IN /\ Called("render", 0)
     /\ layers' = frame.layers
     /\ lastCachePosition' = frame.lastCachePosition
     /\ sessionStats' = frame.sessionStats
     /\ composited' = frame.composited
     /\ layerElements' = ElementsAfterRender(layerElements, frame)
     /\ UNCHANGED <<camera, depthMultiplier, world, canvas>>

\* Variant of invalidateCacheWithMiss that leaves the statistics as they are.
invalidateCacheWithMissUncounted(ls, stats) ==
  [layers |-> invalidateCache(ls), sessionStats |-> stats]

\* invalidateCacheWithMiss(): the layers and statistics afterwards
invalidateCacheWithMiss(ls, stats) ==
  [layers |-> invalidateCache(ls),
   sessionStats |-> [stats EXCEPT !.cacheMisses = @ + 1]]

resize(size) ==
  /\ Called("resize", size)
  /\ canvas' = [width |-> size.width, height |-> size.height]
  /\ layers' = invalidateCacheWithMiss(layers, sessionStats).layers
  /\ sessionStats' = invalidateCacheWithMiss(layers, sessionStats).sessionStats
  /\ UNCHANGED <<camera, lastCachePosition, depthMultiplier, world, composited,
                 layerElements>>

regenerateWorld(seed) ==
  /\ Called("regenerateWorld", seed)
  /\ world' = seed
  /\ layers' = invalidateCacheWithMiss(layers, sessionStats).layers
  /\ sessionStats' = invalidateCacheWithMiss(layers, sessionStats).sessionStats
  /\ UNCHANGED <<camera, lastCachePosition, depthMultiplier, canvas, composited,
                 layerElements>>

toggleLayerVisibility(depth) ==
  /\ Called("toggleLayerVisibility", depth)
  /\ layers' = IF depth \in DOMAIN layers
               THEN [layers EXCEPT ![depth].visible = ~@]
               ELSE layers
  /\ UNCHANGED <<camera, lastCachePosition, sessionStats, depthMultiplier, world,
                 canvas, composited, layerElements>>

setLayerVisibility(depth, visible) ==
  /\ Called("setLayerVisibility", <<depth, visible>>)
  /\ layers' = IF depth \in DOMAIN layers
               THEN [layers EXCEPT ![depth].visible = visible]
               ELSE layers
  /\ UNCHANGED <<camera, lastCachePosition, sessionStats, depthMultiplier, world,
                 canvas, composited, layerElements>>

\* the renderer after setDepthMultiplier(multiplier)
DepthMultiplierSet(multiplier, ls, stats, mult) ==
  IF MultiplierAccepted(multiplier)
  THEN [depthMultiplier |-> multiplier,
        layers |-> invalidateCacheWithMiss(EmptyLayers, stats).layers,
        cleared |-> TRUE,
        sessionStats |-> invalidateCacheWithMiss(EmptyLayers, stats).sessionStats]
  ELSE [depthMultiplier |-> mult, layers |-> ls, cleared |-> FALSE,
        sessionStats |-> stats]

setDepthMultiplier(multiplier) ==
  LET after == DepthMultiplierSet(multiplier, layers, sessionStats, depthMultiplier)
  IN /\ Called("setDepthMultiplier", multiplier)
     /\ depthMultiplier' = after.depthMultiplier
     /\ layers' = after.layers
     /\ sessionStats' = after.sessionStats
     /\ layerElements' = IF after.cleared THEN EmptyLayers ELSE layerElements
     /\ UNCHANGED <<camera, lastCachePosition, world, canvas, composited>>

\* no size search is under way
NoSearch == [testSize |-> 0, size |-> 0, iterations |-> 0]

\* the slicing harness is idle while the renderer runs
HarnessOff ==
  /\ pc = "off"
  /\ fn = "selectSlices"
  /\ arg = [z |-> 0, minRel |-> 0, maxRel |-> 0, mult |-> DEFAULT_DEPTH_MULTIPLIER]
  /\ ret = <<>>
  /\ arg2 = arg
  /\ ret2 = <<>>
  /\ search = NoSearch

Init == InitSliceSizes /\ InitRenderer /\ HarnessOff /\ callLimit = MaxSteps

Next ==
  \/ \E partial \in CameraPartials : setCamera(partial) /\ UNCHANGED harnessVars
  \/ render /\ UNCHANGED harnessVars
  \/ \E size \in SizeInputs : resize(size) /\ UNCHANGED harnessVars
  \/ \E seed \in SeedInputs : regenerateWorld(seed) /\ UNCHANGED harnessVars
  \/ \E depth \in DepthInputs : toggleLayerVisibility(depth) /\ UNCHANGED harnessVars
  \/ \E depth \in DepthInputs, visible \in BOOLEAN :
       setLayerVisibility(depth, visible) /\ UNCHANGED harnessVars
  \/ \E multiplier \in MultiplierInputs :
       setDepthMultiplier(multiplier) /\ UNCHANGED harnessVars

Spec == Init /\ [][Next]_vars

\* ----------------------------------------------- visibility scenario
\* The same renderer followed for MaxVisibilitySteps calls of a smaller set:
\* render, a camera move along z beyond the refresh threshold, a resize, and
\* the two visibility calls on the nearest layer and on a depth without layer.

VisibilityCameraPartials == {[z |-> -30 * ZS + MaxMove]}

VisibilityInputs == {<<-29, FALSE>>, <<-29, TRUE>>, <<7, FALSE>>}

InitVisibility ==
  InitSliceSizes /\ InitRenderer /\ HarnessOff /\ callLimit = MaxVisibilitySteps

NextVisibility ==
  \/ render /\ UNCHANGED harnessVars
  \/ \E partial \in VisibilityCameraPartials : setCamera(partial) /\ UNCHANGED harnessVars
  \/ \E size \in SizeInputs : resize(size) /\ UNCHANGED harnessVars
  \/ \E depth \in DepthInputs : toggleLayerVisibility(depth) /\ UNCHANGED harnessVars
  \/ \E input \in VisibilityInputs :
       setLayerVisibility(input[1], input[2]) /\ UNCHANGED harnessVars

SpecVisibility == InitVisibility /\ [][NextVisibility]_vars

\* ------------------------------------------------ staleness scenario
\* SpecStaleness follows the renderer for MaxStalenessSteps calls: render,
\* camera moves along z of half a unit either way around the constructor
\* depth and one beyond the refresh threshold, resize and regenerateWorld.

StalenessCameraPartials ==
  {[z |-> -30 * ZS - ZS \div 2], [z |-> -30 * ZS], [z |-> -30 * ZS + ZS \div 2],
   [z |-> -30 * ZS + MaxMove]}

StalenessSeeds == {2}

InitStaleness ==
  InitSliceSizes /\ InitRenderer /\ HarnessOff /\ callLimit = MaxStalenessSteps

NextStaleness ==
  \/ render /\ UNCHANGED harnessVars
  \/ \E partial \in StalenessCameraPartials : setCamera(partial) /\ UNCHANGED harnessVars
  \/ \E size \in SizeInputs : resize(size) /\ UNCHANGED harnessVars
  \/ \E seed \in StalenessSeeds : regenerateWorld(seed) /\ UNCHANGED harnessVars

SpecStaleness == InitStaleness /\ [][NextStaleness]_vars

\* ---------------------------------------------- reselection scenario
\* SpecReselect follows the renderer for MaxReselectSteps calls: render, a
\* camera move that takes the nearest layer of the constructor camera out of
\* the selection and the move back, a call that hides that layer, resize,
\* regenerateWorld and a change of multiplier.

ReselectCameraPartials == {[z |-> -29 * ZS], [z |-> -30 * ZS]}

ReselectMultipliers == {<<3, 2>>}

InitReselect ==
  InitSliceSizes /\ InitRenderer /\ HarnessOff /\ callLimit = MaxReselectSteps

NextReselect ==
  \/ render /\ UNCHANGED harnessVars
  \/ \E partial \in ReselectCameraPartials : setCamera(partial) /\ UNCHANGED harnessVars
  \/ setLayerVisibility(-29, FALSE) /\ UNCHANGED harnessVars
  \/ \E size \in SizeInputs : resize(size) /\ UNCHANGED harnessVars
  \/ \E seed \in StalenessSeeds : regenerateWorld(seed) /\ UNCHANGED harnessVars
  \/ \E multiplier \in ReselectMultipliers :
       setDepthMultiplier(multiplier) /\ UNCHANGED harnessVars

SpecReselect == InitReselect /\ [][NextReselect]_vars

\* ------------------------------------------- the slicing functions alone
\* SpecSlices applies the pure functions of slice-selection.ts to inputs drawn
\* in Init: one call, then a second call on a related input.

\* camera z: every 1/ZS step of the whole positions up to MaxCam, and the two
\* positions the renderer documentation names
SliceCameras ==
  {c * ZS + f : c \in -MaxCam..MaxCam, f \in 0..(ZS - 1)} \cup {-67 * ZS, -30 * ZS}

\* <<minRelativeDepth, maxRelativeDepth>>: three windows and two empty ranges
SliceWindows == {<<0, 8>>, <<1, 100>>, <<1, 200>>, <<5, 5>>, <<8, 2>>}

SliceMultipliers == {<<2, 1>>, <<3, 2>>, <<4, 1>>}

ProbeDepths == (-MaxProbe * ZS)..(MaxProbe * ZS)

\* maxRelativeDepth of the calls selectSlices(0, 1, N): every N up to
\* MaxCountWindow and the two long distances of the slice-count test
CountDistances == (2..MaxCountWindow) \cup {1000, 10000}

InitSlices ==
  /\ InitSliceSizes
  /\ InitRenderer
  /\ callLimit = MaxSteps
  /\ pc = "input"
  /\ fn \in {"selectSlices", "getSliceContainingZ"}
  /\ arg \in IF fn = "selectSlices"
             THEN {[z |-> c, minRel |-> w[1], maxRel |-> w[2], mult |-> m] :
                     c \in SliceCameras, w \in SliceWindows, m \in SliceMultipliers}
                  \cup {[z |-> 0, minRel |-> 1, maxRel |-> n,
                          mult |-> DEFAULT_DEPTH_MULTIPLIER] : n \in CountDistances}
             ELSE {[z |-> z, minRel |-> 0, maxRel |-> 0, mult |-> m] :
                     z \in ProbeDepths, m \in SliceMultipliers}
  /\ ret = <<>>
  /\ arg2 = arg
  /\ ret2 = <<>>
  /\ search = NoSearch

CallSelectSlices ==
  /\ pc = "input" /\ fn = "selectSlices"
  /\ ret' = selectSlices(arg.z, arg.minRel, arg.maxRel, arg.mult)
  /\ pc' = "called"
  /\ UNCHANGED <<fn, arg, arg2, ret2, search>>

\* the same window from a camera moved by up to MaxShift
CallSelectSlicesAgain ==
  /\ pc = "called" /\ fn = "selectSlices"
  /\ \E shift \in 1..(MaxShift * ZS) :
       /\ arg2' = [arg EXCEPT !.z = @ + shift]
       /\ ret2' = selectSlices(arg.z + shift, arg.minRel, arg.maxRel, arg.mult)
  /\ pc' = "recalled"
  /\ UNCHANGED <<fn, arg, ret, search>>

CallGetSliceContainingZ ==
  /\ pc = "input" /\ fn = "getSliceContainingZ"
  /\ ret' = <<getSliceContainingZ(arg.z, arg.mult)>>
  /\ pc' = "called"
  /\ UNCHANGED <<fn, arg, arg2, ret2, search>>

\* a second call at a depth inside the slice the first call returned
CallGetSliceContainingZAgain ==
  /\ pc = "called" /\ fn = "getSliceContainingZ"
  /\ \E z \in (ret[1].depth * ZS)..((ret[1].depth + ret[1].size) * ZS - 1) :
       /\ arg2' = [arg EXCEPT !.z = z]
       /\ ret2' = <<getSliceContainingZ(z, arg.mult)>>
  /\ pc' = "recalled"
  /\ UNCHANGED <<fn, arg, ret, search>>

NextSlices ==
  \/ CallSelectSlices /\ UNCHANGED rendererVars /\ UNCHANGED <<sliceSizes, callLimit>>
  \/ CallSelectSlicesAgain /\ UNCHANGED rendererVars /\ UNCHANGED <<sliceSizes, callLimit>>
  \/ CallGetSliceContainingZ /\ UNCHANGED rendererVars /\ UNCHANGED <<sliceSizes, callLimit>>
  \/ CallGetSliceContainingZAgain /\ UNCHANGED rendererVars /\ UNCHANGED <<sliceSizes, callLimit>>

SpecSlices == InitSlices /\ [][NextSlices]_vars

\* ------------------------------------------------------ slicing, by steps
\* The two loops of the slicer taken one iteration at a time.  A selectSlices
\* call runs the while loop of generateSlicesForRange: ret holds the slices
\* pushed so far and ret2 is <<currentSlice>>.  A getSliceContainingZ call
\* runs its size search: search holds testSize and size.

TilingCameras ==
  {c * ZS + f : c \in -MaxCam..MaxCam, f \in 0..1} \cup {-67 * ZS, -30 * ZS}

InitTiling ==
  /\ InitSliceSizes
  /\ InitRenderer
  /\ callLimit = MaxSteps
  /\ pc = "input"
  /\ fn \in {"selectSlices", "getSliceContainingZ"}
  /\ arg \in IF fn = "selectSlices"
             THEN {[z |-> c, minRel |-> w[1], maxRel |-> w[2], mult |-> m] :
                     c \in TilingCameras, w \in SliceWindows, m \in SlicerMultipliers}
             ELSE {[z |-> z, minRel |-> 0, maxRel |-> 0, mult |-> m] :
                     z \in ProbeDepths, m \in SlicerMultipliers}
  /\ ret = <<>>
  /\ arg2 = arg
  /\ ret2 = <<>>
  /\ search = NoSearch

\* generateSlicesForRange up to its loop: the early return, or the first
\* currentSlice
EnterLoop ==
  /\ pc = "input" /\ fn = "selectSlices"
  /\ IF arg.z + arg.minRel * ZS >= arg.z + arg.maxRel * ZS
     THEN /\ pc' = "called"
          /\ ret2' = <<>>
     ELSE /\ pc' = "loop"
          /\ ret2' = <<getSliceContainingZ(arg.z + arg.minRel * ZS, arg.mult)>>
  /\ UNCHANGED <<fn, arg, ret, arg2, search>>

\* one iteration of the while loop of generateSlicesForRange; the iteration
\* that leaves the loop also sorts and returns
IterateLoop ==
  /\ pc = "loop"
  /\ LET iteration == LoopIteration(ret2, arg.z + arg.maxRel * ZS, arg.mult)
     IN /\ ret2' = iteration.pending
        /\ IF iteration.pending = <<>>
           THEN /\ ret' = SortByDepth(ret \o iteration.slices)
                /\ pc' = "called"
           ELSE /\ ret' = ret \o iteration.slices
                /\ pc' = "loop"
  /\ UNCHANGED <<fn, arg, arg2, search>>

\* getSliceContainingZ up to its loop: the return near the origin, or the
\* first testSize
EnterSearch ==
  /\ pc = "input" /\ fn = "getSliceContainingZ"
  /\ IF Abs(Floor(arg.z)) < 1
     THEN /\ ret' = <<[depth |-> Floor(arg.z), size |-> MIN_SIZE]>>
          /\ search' = search
          /\ pc' = "called"
     ELSE /\ ret' = ret
          /\ search' = [testSize |-> MIN_SIZE, size |-> MIN_SIZE, iterations |-> 0]
          /\ pc' = "search"
  /\ UNCHANGED <<fn, arg, arg2, ret2>>

\* one iteration of the size search; the one that leaves the loop returns
IterateSearch ==
  /\ pc = "search"
  /\ LET intZ == Floor(arg.z)
         iteration == SearchIteration(intZ, SliceSizeAt(intZ, arg.mult), arg.mult,
                                      search.testSize, search.size)
     IN /\ search' = [testSize |-> iteration.testSize, size |-> iteration.size,
                      iterations |-> search.iterations + 1]
        /\ IF iteration.done
           THEN /\ ret' = <<[depth |-> (intZ \div iteration.size) * iteration.size,
                             size |-> iteration.size]>>
                /\ pc' = "called"
           ELSE /\ ret' = ret
                /\ pc' = "search"
  /\ UNCHANGED <<fn, arg, arg2, ret2>>

NextTiling ==
  \/ EnterLoop /\ UNCHANGED rendererVars /\ UNCHANGED <<sliceSizes, callLimit>>
  \/ IterateLoop /\ UNCHANGED rendererVars /\ UNCHANGED <<sliceSizes, callLimit>>
  \/ EnterSearch /\ UNCHANGED rendererVars /\ UNCHANGED <<sliceSizes, callLimit>>
  \/ IterateSearch /\ UNCHANGED rendererVars /\ UNCHANGED <<sliceSizes, callLimit>>

\* a call that has started runs on: the code is sequential
SpecTiling == InitTiling /\ [][NextTiling]_vars /\ WF_vars(NextTiling)

\* ------------------------------------------------ the world's slices alone
\* SpecProvide applies getSliceAtDepth to a depth, a requested size and a
\* multiplier drawn in Init.

\* the sizes of the default progression, and requests between and beyond them
RequestedSizes == {1, 2, 4, 8, 16, 32, 64} \cup {3, 24, 100}

InitProvide ==
  /\ InitSliceSizes
  /\ InitRenderer
  /\ callLimit = MaxSteps
  /\ pc = "input"
  /\ fn = "getSliceAtDepth"
  /\ arg \in {[z |-> z, minSize |-> s, mult |-> m] :
               z \in ProbeDepths, s \in RequestedSizes, m \in SlicerMultipliers}
  /\ ret = <<>>
  /\ arg2 = arg
  /\ ret2 = <<>>
  /\ search = NoSearch

CallGetSliceAtDepth ==
  /\ pc = "input" /\ fn = "getSliceAtDepth"
  /\ ret' = <<getSliceAtDepth(arg.z, arg.minSize, arg.mult)>>
  /\ pc' = "called"
  /\ UNCHANGED <<fn, arg, arg2, ret2, search>>

NextProvide ==
  CallGetSliceAtDepth /\ UNCHANGED rendererVars /\ UNCHANGED <<sliceSizes, callLimit>>

SpecProvide == InitProvide /\ [][NextProvide]_vars

\* ------------------------------------------------------------ properties
\* a selectSlices call has returned
SlicesReturned == pc \in {"called", "recalled"} /\ fn = "selectSlices"

\* the returned slices that contain the depth z (in 1/ZS units)
SlicesAt(slices, z) ==
  {slices[i] : i \in {j \in 1..Len(slices) :
                        /\ slices[j].depth * ZS <= z
                        /\ z < (slices[j].depth + slices[j].size) * ZS}}

\* the statistics of the frame render() has just drawn
LastFrame(stats) == stats.lastUpdate[1]

\* one call of the named operation is the step taken
Calls(op) == lastCall'.op = op /\ steps' = steps + 1

\* C1: for every camera z and window min < max, the slices selectSlices
\* returns are in ascending order of depth, each ends where the next starts,
\* the first contains cameraZ + min and the last ends at or after cameraZ + max.
C1_Contiguous ==
  (SlicesReturned /\ arg.minRel < arg.maxRel) =>
    LET minZ == arg.z + arg.minRel * ZS
        maxZ == arg.z + arg.maxRel * ZS
        last == ret[Len(ret)]
    IN /\ Len(ret) >= 1
       /\ \A i \in 1..(Len(ret) - 1) :
            /\ ret[i].depth < ret[i + 1].depth
            /\ ret[i].depth + ret[i].size = ret[i + 1].depth
       /\ ret[1].depth * ZS <= minZ
       /\ minZ < (ret[1].depth + ret[1].size) * ZS
       /\ (last.depth + last.size) * ZS >= maxZ

\* a fractional negative camera whose window is cut into several slices
C1_Witness ==
  /\ SlicesReturned /\ arg.minRel < arg.maxRel
  /\ arg.z < 0 /\ arg.z % ZS # 0
  /\ Len(ret) > 2
  /\ arg.mult = <<3, 2>>

\* C2: every slice selectSlices returns has depth mod size = 0 (true modulo),
\* negative depths included.
C2_Aligned ==
  SlicesReturned => \A i \in 1..Len(ret) : ret[i].depth % ret[i].size = 0

\* a returned slice below zero that is wider than one unit
C2_Witness ==
  /\ SlicesReturned
  /\ \E i \in 1..Len(ret) : ret[i].depth < 0 /\ ret[i].size > 2
  /\ \E i \in 1..Len(ret) : ret[i].depth > 0 /\ ret[i].size > 2

\* C3: with the default multiplier 2 every slice selectSlices returns has a
\* size in {1, 2, 4, 8, 16, 32, 64}.
C3_PowerOfTwoSizes ==
  (SlicesReturned /\ arg.mult = DEFAULT_DEPTH_MULTIPLIER) =>
    \A i \in 1..Len(ret) : ret[i].size \in {1, 2, 4, 8, 16, 32, 64}

\* a default-multiplier selection that has both the smallest and the largest size
C3_Witness ==
  /\ SlicesReturned /\ arg.mult = DEFAULT_DEPTH_MULTIPLIER
  /\ \E i \in 1..Len(ret) : ret[i].size = MAX_SIZE
  /\ \E i \in 1..Len(ret) : ret[i].size = MIN_SIZE

\* C4: getSliceContainingZ called again at any depth inside the slice it
\* returned gives the same slice.
C4_Idempotent ==
  (pc = "recalled" /\ fn = "getSliceContainingZ") => ret2 = ret

\* C5: for two cameras with the window (1, 100) and the default multiplier,
\* a depth inside both windows lies in the same slice of both selections.
C5_CameraIndependent ==
  (/\ pc = "recalled" /\ fn = "selectSlices"
   /\ arg.minRel = 1 /\ arg.maxRel = 100
   /\ arg.mult = DEFAULT_DEPTH_MULTIPLIER) =>
    \A z \in (arg2.z + ZS)..(arg.z + 100 * ZS - 1) : SlicesAt(ret, z) = SlicesAt(ret2, z)

\* the depths selectSlices gives for the current camera and multiplier
SelectedDepths ==
  LET boundaries == selectSlices(camera.z, 1, 200, depthMultiplier)
  IN {boundaries[i].depth : i \in 1..Len(boundaries)}

C7_LateralMoveIsFree ==
  [][(lateralOnly /\ Calls("render")) =>
       /\ LastFrame(sessionStats').layersRegenerated = 0
       /\ LastFrame(sessionStats').layersReused = LastFrame(sessionStats').layerCount
       /\ LastFrame(sessionStats').layerCount > 0
       /\ LastFrame(sessionStats').voxelsRendered = 0
       /\ sessionStats'.voxelsRendered = 0
       /\ sessionStats'.cacheHits = sessionStats.cacheHits + 1
       /\ sessionStats'.cacheMisses = sessionStats.cacheMisses]_vars

\* render(), setCamera({x: 1}), render(): the second frame reused every layer
C7_Witness ==
  /\ lastCall.op = "render"
  /\ steps = 3
  /\ sessionStats.totalUpdates = 2
  /\ camera = [x |-> 1, y |-> 15, z |-> -30 * ZS]
  /\ sessionStats.cacheMisses = 0
  /\ LastFrame(sessionStats).layersReused = Cardinality(DOMAIN layers)
  /\ sessionStats.totalVoxelsRendered > 0

C9_InvalidationTriggers ==
  [][/\ (Calls("resize") \/ Calls("regenerateWorld")) =>
          /\ DOMAIN layers' = DOMAIN layers
          /\ \A d \in DOMAIN layers :
               /\ layers'[d].dirty
               /\ layers'[d].depth = layers[d].depth
               /\ layers'[d].size = layers[d].size
               /\ layers'[d].visible = layers[d].visible
          /\ sessionStats'.cacheMisses = sessionStats.cacheMisses + 1
          /\ sessionStats'.cacheHits = sessionStats.cacheHits
          /\ camera' = camera
          /\ lastCachePosition' = lastCachePosition
     /\ (lastCall.op \in {"resize", "regenerateWorld"} /\ Calls("render")) =>
          /\ LastFrame(sessionStats').layersRegenerated = Cardinality(DOMAIN layers')
          /\ LastFrame(sessionStats').layersReused = 0
          /\ \A d \in DOMAIN layers' : ~layers'[d].dirty]_vars

\* render(), resize(1024, 768), render(): the second frame regenerated every layer
C9_Witness ==
  /\ lastCall.op = "render"
  /\ sessionStats.totalUpdates = 2
  /\ canvas.width = 1024
  /\ sessionStats.cacheMisses = 1
  /\ sessionStats.cacheHits = 2
  /\ LastFrame(sessionStats).layersRegenerated = Cardinality(DOMAIN layers)
  /\ layers # EmptyLayers

\* C10: setDepthMultiplier(m) with 1.2 <= m <= 4 stores m, empties the layer
\* map and adds one cache miss; the render() that follows creates every
\* selected layer and regenerates all of them (layersReused = 0).
C10_MultiplierInRange ==
  [][/\ (/\ Calls("setDepthMultiplier")
         /\ 5 * lastCall'.param[1] >= 6 * lastCall'.param[2]
         /\ lastCall'.param[1] <= 4 * lastCall'.param[2]) =>
          /\ depthMultiplier' = lastCall'.param
          /\ DOMAIN layers' = {}
          /\ sessionStats'.cacheMisses = sessionStats.cacheMisses + 1
     /\ (/\ lastCall.op = "setDepthMultiplier"
         /\ 5 * lastCall.param[1] >= 6 * lastCall.param[2]
         /\ lastCall.param[1] <= 4 * lastCall.param[2]
         /\ Calls("render")) =>
          /\ DOMAIN layers' # {}
          /\ \A d \in DOMAIN layers' : layers'[d].visible /\ ~layers'[d].dirty
          /\ LastFrame(sessionStats').layersRegenerated = Cardinality(DOMAIN layers')
          /\ LastFrame(sessionStats').layerCount = Cardinality(DOMAIN layers')
          /\ LastFrame(sessionStats').layersReused = 0]_vars

\* render(), setDepthMultiplier(1.2), render(): the lower end of the range
C10_Witness ==
  /\ lastCall.op = "render"
  /\ sessionStats.totalUpdates = 2
  /\ depthMultiplier = <<6, 5>>
  /\ sessionStats.cacheMisses = 1
  /\ LastFrame(sessionStats).layersReused = 0
  /\ LastFrame(sessionStats).layerCount > 100

\* C11: setDepthMultiplier(m) with m < 1.2 or m > 4 changes nothing: the
\* multiplier, the layer map (with every dirty and visible flag), the camera,
\* the baseline position and every statistics counter stay as they were.
C11_OutOfRangeIgnored ==
  [][(/\ Calls("setDepthMultiplier")
      /\ \/ 5 * lastCall'.param[1] < 6 * lastCall'.param[2]
         \/ lastCall'.param[1] > 4 * lastCall'.param[2]) =>
       /\ depthMultiplier' = depthMultiplier
       /\ layers' = layers
       /\ camera' = camera
       /\ lastCachePosition' = lastCachePosition
       /\ sessionStats' = sessionStats
       /\ world' = world
       /\ canvas' = canvas]_vars

\* render(), toggleLayerVisibility(-29), setDepthMultiplier(4.5): the hidden
\* layer and the frame statistics are still there
C11_Witness ==
  /\ lastCall.op = "setDepthMultiplier"
  /\ lastCall.param = <<9, 2>>
  /\ depthMultiplier = DEFAULT_DEPTH_MULTIPLIER
  /\ -29 \in DOMAIN layers
  /\ ~layers[-29].visible
  /\ sessionStats.totalUpdates = 1

\* C13: selectSlices returns the empty list whenever minRelativeDepth >=
\* maxRelativeDepth (equality included), for every camera position.
C13_EmptyRange ==
  (SlicesReturned /\ arg.minRel >= arg.maxRel) => ret = <<>>

\* both kinds of empty window were called, from a camera between whole depths
C13_Witness ==
  /\ SlicesReturned /\ pc = "recalled"
  /\ arg.minRel = arg.maxRel
  /\ JsRem(arg.z, ZS) # 0
  /\ ret = <<>> /\ ret2 = <<>>

\* C14: selectSlices(-67, 1, 200) with the default multiplier includes a
\* slice that covers world depth 0 and whose size is at least 32.
C14_LargeSliceAtOrigin ==
  (/\ SlicesReturned
   /\ arg = [z |-> -67 * ZS, minRel |-> 1, maxRel |-> 200,
             mult |-> DEFAULT_DEPTH_MULTIPLIER]) =>
    \E i \in DOMAIN ret :
      /\ ret[i].depth <= 0
      /\ 0 < ret[i].depth + ret[i].size
      /\ ret[i].size >= 32

\* C15: for every camera position and window, the sizes of the slices
\* selectSlices returns never decrease in order of increasing depth, windows
\* that start at a negative depth and cross depth 0 included.
C15_NonDecreasingSizes ==
  SlicesReturned =>
    \A i \in 1..(Len(ret) - 1) : ret[i].size <= ret[i + 1].size

\* ceil(n / d) for n >= 0, d > 0
CeilDiv(n, d) == (n + d - 1) \div d

\* C16: selectSlices(0, 1, N) with the default multiplier returns at most 7
\* slices for N <= 128 and at most 7 + ceil((N - 128) / 64) beyond; at most
\* 20 for N = 100, 25 for N = 1000 and 170 for N = 10000.
C16_SliceCount ==
  (/\ SlicesReturned
   /\ arg.z = 0 /\ arg.minRel = 1 /\ arg.maxRel > 1
   /\ arg.mult = DEFAULT_DEPTH_MULTIPLIER) =>
    /\ Len(ret) >= 1
    /\ arg.maxRel <= 128 => Len(ret) <= 7
    /\ arg.maxRel > 128 => Len(ret) <= 7 + CeilDiv(arg.maxRel - 128, 64)
    /\ arg.maxRel = 100 => Len(ret) <= 20
    /\ arg.maxRel = 1000 => Len(ret) <= 25
    /\ arg.maxRel = 10000 => Len(ret) <= 170

\* selectSlices(0, 1, 10000): seven doubling slices, then size 64 to the end
C16_Witness ==
  /\ SlicesReturned
  /\ arg = [z |-> 0, minRel |-> 1, maxRel |-> 10000, mult |-> DEFAULT_DEPTH_MULTIPLIER]
  /\ Len(ret) = 162
  /\ ret[7] = [depth |-> 64, size |-> 64]
  /\ ret[162].depth + ret[162].size >= 10000

\* 2^k
RECURSIVE PowerOfTwo(_)
PowerOfTwo(k) == IF k = 0 THEN 1 ELSE 2 * PowerOfTwo(k - 1)

\* the reference size of a slice that starts at the whole depth start: 1 at 0,
\* otherwise the largest power of 2 that divides start and is at most
\* min(64, 2^floor(log2 |start|)), the largest power of 2 not above |start|
ReferenceSize(start) ==
  IF start = 0 THEN 1
  ELSE LET fits == {p \in {PowerOfTwo(k) : k \in 0..6} :
                      /\ start % p = 0
                      /\ p <= 64
                      /\ p <= Abs(start)}
       IN CHOOSE p \in fits : \A q \in fits : q <= p

C18_FarthestFirst ==
  /\ \A i \in 1..(Len(composited) - 1) : composited[i] > composited[i + 1]
  /\ lastCall.op = "render" =>
       /\ {composited[i] : i \in DOMAIN composited}
            = {d \in DOMAIN layers : layers[d].visible}
       /\ DOMAIN layerElements = DOMAIN layers
       /\ \A near, far \in DOMAIN layers :
            near < far => layerElements[near] > layerElements[far]

\* render(), toggleLayerVisibility(-29), render(): the nearest layer is
\* hidden and not drawn, the others are drawn, and it keeps the top z-index
C18_Witness ==
  /\ lastCall.op = "render"
  /\ -29 \in DOMAIN layers
  /\ ~layers[-29].visible
  /\ Len(composited) = Cardinality(DOMAIN layers) - 1
  /\ Len(composited) > 5
  /\ layerElements[-29] = 2 * (Cardinality(DOMAIN layers) - 1)

\* C19: render() draws only clean layers: a layer it draws has had its dirty
\* flag cleared in this frame or an earlier one, and right after every
\* render() no live layer is dirty.
C19_OnlyCleanLayersDrawn ==
  [][Calls("render") =>
       /\ \A i \in DOMAIN composited' :
            /\ composited'[i] \in DOMAIN layers'
            /\ ~layers'[composited'[i]].dirty
            /\ \/ /\ composited'[i] \in DOMAIN layers
                  /\ ~layers[composited'[i]].dirty
                  /\ ~needsCacheRefresh(camera, lastCachePosition)
               \/ layers'[composited'[i]].voxels
                    = getVoxelsInAbsoluteZRange(world, composited'[i],
                        composited'[i] + layers'[composited'[i]].size)
       /\ \A d \in DOMAIN layers' : ~layers'[d].dirty]_vars

\* render(), resize(1024, 768), render(): every layer was dirty when the
\* second frame began, and all of them were regenerated and drawn
C19_Witness ==
  /\ lastCall.op = "render"
  /\ sessionStats.totalUpdates = 2
  /\ canvas.width = 1024
  /\ sessionStats.cacheMisses = 1
  /\ LastFrame(sessionStats).layersRegenerated = Cardinality(DOMAIN layers)
  /\ Len(composited) = Cardinality(DOMAIN layers)
  /\ \A d \in DOMAIN layers : ~layers[d].dirty

\* C20: a z move of the camera leaves the layers that stay selected cached:
\* render() regenerates only the layers that are new to the map or were
\* marked dirty by a world regeneration or a resize, and reuses every layer
\* that was selected and clean before the frame.
C20_SurvivorsStayCached ==
  [][Calls("render") =>
       /\ \A d \in DOMAIN layers \cap DOMAIN layers' :
            ~layers[d].dirty => layers'[d] = layers[d]
       /\ LastFrame(sessionStats').layersRegenerated
            = Cardinality({d \in DOMAIN layers' :
                             d \notin DOMAIN layers \/ layers[d].dirty})]_vars

\* a visibility call on depth changed nothing but the visible flag of the
\* layer at depth, which is now flipped (toggleLayerVisibility) or equal to
\* visible (setLayerVisibility)
OnlyVisibilityChanged(depth, flipped, visible) ==
  /\ DOMAIN layers' = DOMAIN layers
  /\ \A d \in DOMAIN layers :
       IF d = depth
       THEN layers'[d] = [layers[d] EXCEPT
                            !.visible = IF flipped THEN ~@ ELSE visible]
       ELSE layers'[d] = layers[d]
  /\ depth \notin DOMAIN layers => layers' = layers
  /\ lastCachePosition' = lastCachePosition
  /\ sessionStats' = sessionStats
  /\ camera' = camera
  /\ depthMultiplier' = depthMultiplier
  /\ world' = world
  /\ canvas' = canvas

\* the layers render() has to regenerate whatever their visible flag: the
\* new ones, the dirty ones, and all of them after a cache refresh
DueForRegeneration ==
  {d \in DOMAIN layers' :
     \/ d \notin DOMAIN layers
     \/ layers[d].dirty
     \/ needsCacheRefresh(camera, lastCachePosition)}

\* C12: toggleLayerVisibility(depth) and setLayerVisibility(depth, v) change
\* only the visible flag of the layer at depth, and nothing when there is no
\* such layer: the layer set, the dirty flags, the baseline and the hit/miss
\* counters stay.  The next render() regenerates a hidden layer if it is dirty
\* and counts it as regenerated or reused as it would a visible one.
C12_VisibilityOnly ==
  [][/\ Calls("toggleLayerVisibility") =>
          OnlyVisibilityChanged(lastCall'.param, TRUE, TRUE)
     /\ Calls("setLayerVisibility") =>
          OnlyVisibilityChanged(lastCall'.param[1], FALSE, lastCall'.param[2])
     /\ Calls("render") =>
          /\ \A d \in DOMAIN layers' :
               /\ ~layers'[d].dirty
               /\ layers'[d].visible = (d \in DOMAIN layers => layers[d].visible)
               /\ d \in DueForRegeneration =>
                    layers'[d].voxels = getVoxelsInAbsoluteZRange(world, d,
                                                                  d + layers'[d].size)
               /\ d \notin DueForRegeneration => layers'[d] = layers[d]
          /\ LastFrame(sessionStats').layersRegenerated
               = Cardinality(DueForRegeneration)
          /\ LastFrame(sessionStats').layersReused
               = Cardinality(DOMAIN layers' \ DueForRegeneration)]_vars

\* render(), a call that hides the layer at -29, resize(1024, 768), render():
\* the hidden layer was dirty when the last frame began; it is clean now,
\* counted among the regenerated layers, and not drawn
C12_Witness ==
  /\ lastCall.op = "render"
  /\ sessionStats.totalUpdates = 2
  /\ canvas.width = 1024
  /\ -29 \in DOMAIN layers
  /\ ~layers[-29].visible
  /\ ~layers[-29].dirty
  /\ LastFrame(sessionStats).layersRegenerated = Cardinality(DOMAIN layers)
  /\ \A i \in DOMAIN composited : composited[i] # -29

\* C21: right after every render() the voxels of each live layer are exactly
\* the voxels of the current world with depth <= z < depth + size, whatever
\* the camera position, so a world voxel inside a covered interval belongs to
\* exactly one live layer.
C21_AbsoluteVoxelRanges ==
  lastCall.op = "render" =>
    /\ \A d \in DOMAIN layers :
         layers[d].voxels
           = {v \in generate(world) : d <= v.z /\ v.z < d + layers[d].size}
    /\ \A v \in generate(world) :
         (\E d \in DOMAIN layers : d <= v.z /\ v.z < d + layers[d].size) =>
           Cardinality({d \in DOMAIN layers : v \in layers[d].voxels}) = 1

\* setCamera({z: 10}), regenerateWorld(2), render(): a frame of the second
\* world seen from another camera depth, with voxels in some layer
C21_Witness ==
  /\ lastCall.op = "render"
  /\ world = 2
  /\ camera.z = 10 * ZS
  /\ \E d \in DOMAIN layers : layers[d].voxels # {}

\* C22: slicing always terminates.  Every call of the step model returns;
\* each iteration of the loop of generateSlicesForRange that stays in the loop
\* moves currentSlice up by at least MIN_SIZE and keeps it below maxZ; each
\* iteration of the size search that stays in the loop raises testSize, and
\* the search leaves the loop when round(testSize * multiplier) does not grow.
\* What the steps return is what selectSlices and getSliceContainingZ return.
C22_TilingTerminates ==
  /\ <>(pc = "called")
  /\ [][/\ (pc = "loop" /\ pc' = "loop") =>
             /\ ret2'[1].depth >= ret2[1].depth + MIN_SIZE
             /\ ret2'[1].depth * ZS < arg.z + arg.maxRel * ZS
             /\ Len(ret') = Len(ret) + 1
        /\ (pc = "search" /\ pc' = "search") =>
             /\ search'.testSize > search.testSize
             /\ search'.testSize <= MAX_SIZE * MulNum(arg.mult)
        /\ (pc = "search" /\ pc' = "called"
              /\ Round(search.testSize * MulNum(arg.mult), MulDen(arg.mult))
                    <= search.testSize) =>
             search'.iterations = 1
        /\ (pc' = "called" /\ fn = "selectSlices") =>
             ret' = selectSlices(arg.z, arg.minRel, arg.maxRel, arg.mult)
        /\ (pc' = "called" /\ fn = "getSliceContainingZ") =>
             ret' = <<getSliceContainingZ(arg.z, arg.mult)>>]_vars

\* selectSlices(-30, 1, 200, 1.2) has returned: round(1 * 1.2) = 1 does not
\* grow, every slice has size 1 and the loop ran 199 times
C22_Witness ==
  /\ pc = "called" /\ fn = "selectSlices"
  /\ arg = [z |-> -30 * ZS, minRel |-> 1, maxRel |-> 200, mult |-> <<6, 5>>]
  /\ Len(ret) = 199
  /\ ret2 = <<>>

\* C23: for every integer depth d and every requested size 1, 2, 4, ..., 64,
\* getSliceAtDepth with the default multiplier returns a slice that starts at d
\* and whose size is the smallest power of two up to MAX_SIZE that divides d
\* and is at least the request, or, when there is none, the largest power of
\* two up to MAX_SIZE that divides d; the start is a multiple of the size.
PowersOfTwo == {1, 2, 4, 8, 16, 32, 64}

DividingPowers(d) == {s \in PowersOfTwo : d % s = 0}

C23_ProvidedSlice ==
  (/\ pc = "called" /\ fn = "getSliceAtDepth"
   /\ arg.mult = DEFAULT_DEPTH_MULTIPLIER
   /\ arg.z % ZS = 0
   /\ arg.minSize \in PowersOfTwo)
  => LET d == arg.z \div ZS
         enough == {s \in DividingPowers(d) : s >= arg.minSize}
     IN /\ ret[1].depth = d
        /\ ret[1].size = IF enough # {} THEN Smallest(enough)
                         ELSE Largest(DividingPowers(d))
        /\ ret[1].depth % ret[1].size = 0

\* depth -24 with 16 requested: 8 is the largest power of two dividing it
C23_Witness ==
  /\ pc = "called" /\ fn = "getSliceAtDepth"
  /\ arg = [z |-> -24 * ZS, minSize |-> 16, mult |-> DEFAULT_DEPTH_MULTIPLIER]
  /\ ret = <<[depth |-> -24, size |-> 8]>>

\* C24: right after render() the live layers are exactly the current
\* selection: their depths are the starts selectSlices returns for the current
\* camera and multiplier, and each layer, new or kept from an earlier frame,
\* has the size the selection gives to its start.
C24_LayersAreTheSelection ==
  lastCall.op = "render" =>
    LET boundaries == selectSlices(camera.z, 1, 200, depthMultiplier)
    IN /\ DOMAIN layers = {boundaries[i].depth : i \in 1..Len(boundaries)}
       /\ \A i \in 1..Len(boundaries) :
            /\ boundaries[i].depth \in DOMAIN layers
            /\ layers[boundaries[i].depth].size = boundaries[i].size

\* a second frame after a move along z below the refresh threshold: the layer
\* at -30 is new, the layer at -28 is kept from the first frame
C24_Witness ==
  /\ lastCall.op = "render"
  /\ camera.z = -30 * ZS - 1
  /\ LastFrame(sessionStats).layersRegenerated > 0
  /\ LastFrame(sessionStats).layersReused > 0
  /\ -30 \in DOMAIN layers /\ -28 \in DOMAIN layers
  /\ layers[-28].size = 4

\* C25: a render() that adds a cache hit has regenerated no layer, and a
\* render() that regenerates at least one layer adds a cache miss.
C25_HitMeansNothingRegenerated ==
  [][Calls("render") =>
       /\ (sessionStats'.cacheHits > sessionStats.cacheHits
             => LastFrame(sessionStats').layersRegenerated = 0)
       /\ (LastFrame(sessionStats').layersRegenerated > 0
             => sessionStats'.cacheMisses > sessionStats.cacheMisses)]_vars

\* C26: every render() adds one to totalUpdates and one to exactly one of
\* cacheHits and cacheMisses; every resize, regenerateWorld and accepted
\* setDepthMultiplier adds one to cacheMisses; the two counters never
\* decrease; and cacheHits + cacheMisses is totalUpdates plus the number of
\* resize, regenerateWorld and accepted setDepthMultiplier calls made so far.
Hits(stats) == stats.cacheHits

Misses(stats) == stats.cacheMisses

C26_ExactAccounting ==
  [][/\ Calls("render") =>
          /\ sessionStats'.totalUpdates = sessionStats.totalUpdates + 1
          /\ \/ /\ Hits(sessionStats') = Hits(sessionStats) + 1
                /\ Misses(sessionStats') = Misses(sessionStats)
             \/ /\ Hits(sessionStats') = Hits(sessionStats)
                /\ Misses(sessionStats') = Misses(sessionStats) + 1
     /\ (Calls("resize") \/ Calls("regenerateWorld")
           \/ (Calls("setDepthMultiplier") /\ depthMultiplier' = lastCall'.param))
          => /\ Misses(sessionStats') = Misses(sessionStats) + 1
             /\ Hits(sessionStats') = Hits(sessionStats)
             /\ sessionStats'.totalUpdates = sessionStats.totalUpdates
     /\ Hits(sessionStats') >= Hits(sessionStats)
     /\ Misses(sessionStats') >= Misses(sessionStats)
     /\ Hits(sessionStats') + Misses(sessionStats')
          = sessionStats'.totalUpdates + invalidations']_vars

\* render(), resize, render(): two hits and the miss of the resize
C26_Witness ==
  /\ lastCall.op = "render"
  /\ sessionStats.totalUpdates = 2
  /\ invalidations = 1
  /\ Hits(sessionStats) = 2
  /\ Misses(sessionStats) = 1

\* C27: right after render() no layer is behind the camera: every layer
\* starts beyond camera.z and its centre, start + size / 2, is more than 0.5
\* beyond camera.z, so the frame skipped no layer: layersReused +
\* layersRegenerated = layerCount.
C27_NoLayerBehindCamera ==
  lastCall.op = "render" =>
    /\ \A d \in DOMAIN layers :
         /\ layers[d].depth * ZS > camera.z
         /\ 2 * ZS * layers[d].depth + ZS * layers[d].size - 2 * camera.z > ZS
    /\ LastFrame(sessionStats).layersReused + LastFrame(sessionStats).layersRegenerated
         = LastFrame(sessionStats).layerCount
    /\ LastFrame(sessionStats).layerCount = Cardinality(DOMAIN layers)

\* camera at -29.25: the nearest layer starts at -29, 0.25 beyond the camera,
\* and has size 1
C27_Witness ==
  /\ lastCall.op = "render"
  /\ camera.z = -30 * ZS + 3
  /\ -29 \in DOMAIN layers
  /\ layers[-29].size = 1
  /\ LastFrame(sessionStats).layerCount > 1

C29_VisibilityPersists ==
  [][/\ Calls("render") =>
          \A d \in DOMAIN layers' :
            layers'[d].visible = (d \in DOMAIN layers => layers[d].visible)
     /\ (Calls("resize") \/ Calls("regenerateWorld")) =>
          /\ DOMAIN layers' = DOMAIN layers
          /\ \A d \in DOMAIN layers : layers'[d].visible = layers[d].visible
     /\ Calls("setCamera") => layers' = layers
     /\ Calls("setDepthMultiplier") => (layers' = layers \/ layers' = EmptyLayers)]_vars

\* render(), the layer at -29 hidden, the camera moved to -29 and rendered (the
\* layer is gone), the camera moved back and rendered: the layer at -29 is
\* there again, and visible
C29_Witness ==
  /\ lastCall.op = "render"
  /\ steps = 6
  /\ sessionStats.totalUpdates = 3
  /\ sessionStats.cacheMisses = 2
  /\ invalidations = 0
  /\ -29 \in everHidden
  /\ -29 \in DOMAIN layers
  /\ layers[-29].visible

\* C30: for every multiplier setDepthMultiplier accepts, selectSlices(0, 1,
\* 200, m) returns at least one slice larger than MIN_SIZE and fewer than 199
\* slices.
C30_SizesGrow ==
  (/\ pc = "called" /\ fn = "selectSlices"
   /\ arg.z = 0 /\ arg.minRel = 1 /\ arg.maxRel = 200
   /\ MultiplierAccepted(arg.mult))
  => /\ \E i \in 1..Len(ret) : ret[i].size > MIN_SIZE
     /\ Len(ret) < 199

====
